---- MODULE Spec2Model ----
(***************************************************************************)
(* PR reviewer assignment service.                                         *)
(*                                                                         *)
(* The state is the content of the four PostgreSQL tables (teams, users,   *)
(* pull_requests, pr_reviewers) behind the Storage interface and the clock *)
(* that stamps created_at / merged_at.  Every method of                    *)
(* storage.PostgresStorage is an operator on a database value db (the four *)
(* tables); every method of service.Service is an operator that gives, for *)
(* a database and the arguments of the call, the set of its possible       *)
(* results (what it returns and the database it leaves; more than one only *)
(* where the code draws at random), and an action that takes one of them.  *)
(*                                                                         *)
(* Identifiers (user_id, team_name, pull_request_id) are strings in the    *)
(* code; they are numbered here, the numeric order standing for the        *)
(* ORDER BY user_id of the queries.  users.username is stored but read by  *)
(* no decision of the service and is left out of the user row.             *)
(***************************************************************************)
EXTENDS Integers, Sequences, FiniteSets, TLC

\* Bounds of the model: how many user ids, team names and pull request ids
\* the requests are drawn from.
NumUsers == 4
NumTeams == 2
NumPRs == 1

Users == 1..NumUsers
Teams == 1..NumTeams
PRIds == 1..NumPRs
PRNames == {"title-a", "title-b"}

VARIABLES
    teams,          \* table teams: the set of team_name
    users,          \* table users: user_id -> [team_name, is_active]
    pull_requests,  \* table pull_requests: pull_request_id -> row
    pr_reviewers,   \* table pr_reviewers: <<pull_request_id, user_id>> -> number of rows
    clock,          \* the next value of time.Now() / CURRENT_TIMESTAMP
    requests        \* the calls of the service in flight, when they are
                    \* followed store call by store call (see below)

vars == <<teams, users, pull_requests, pr_reviewers, clock, requests>>

\* The database as one value, as the storage methods see it.
DB == [teams |-> teams, users |-> users, pull_requests |-> pull_requests,
       pr_reviewers |-> pr_reviewers, clock |-> clock]

\* A Go nil pointer / SQL NULL, and a value that is present.
None == <<>>
Some(v) == <<v>>

\* error values: nil, an untyped error built by fmt.Errorf in the storage
\* layer, or a *ServiceError carrying a code.
NoError == [typed |-> FALSE, code |-> "nil"]
StorageError(message) == [typed |-> FALSE, code |-> message]
ServiceError(code) == [typed |-> TRUE, code |-> code]

----------------------------------------------------------------------------
(* internal/storage/storage.go                                             *)

\* The user ids of a set in ascending order (ORDER BY user_id).
RECURSIVE OrderByUserID(_)
OrderByUserID(S) ==
    IF S = {} THEN <<>>
    ELSE LET least == CHOOSE u \in S : \A v \in S : u <= v
         IN <<least>> \o OrderByUserID(S \ {least})

TeamExists(db, teamName) == teamName \in db.teams

\* INSERT INTO teams: the primary key rejects a second row of the same name.
StorageCreateTeam(db, teamName) ==
    IF teamName \in db.teams
    THEN [err |-> StorageError("failed to create team"), db |-> db]
    ELSE [err |-> NoError, db |-> [db EXCEPT !.teams = @ \cup {teamName}]]

\* CreateOrUpdateUser done as DELETE then INSERT, the rows of pr_reviewers
\* that name the user going with the deleted row.
CreateOrUpdateUserDeleteInsert(db, user) ==
    IF user.team_name \notin db.teams
    THEN [err |-> StorageError("failed to create or update user"), db |-> db]
    ELSE [err |-> NoError,
          db |-> [db EXCEPT !.users =
                    (user.user_id :> [team_name |-> user.team_name,
                                      is_active |-> user.is_active]) @@ @,
                            !.pr_reviewers =
                    [row \in DOMAIN @ |->
                        IF row[2] = user.user_id THEN 0 ELSE @[row]]]]

\* INSERT ... ON CONFLICT (user_id) DO UPDATE: the row of user.user_id
\* becomes the given one, whether or not it existed; the foreign key wants
\* the team to exist.
CreateOrUpdateUser(db, user) ==
    IF user.team_name \notin db.teams
    THEN [err |-> StorageError("failed to create or update user"), db |-> db]
    ELSE [err |-> NoError,
          db |-> [db EXCEPT !.users =
                    (user.user_id :> [team_name |-> user.team_name,
                                      is_active |-> user.is_active]) @@ @]]

\* GetUser taking sql.ErrNoRows for a row: the zero value of models.User
\* is returned with no error.
GetUserNoRowsIgnored(db, userID) ==
    IF userID \in DOMAIN db.users
    THEN [err |-> NoError,
          user |-> [user_id |-> userID,
                    team_name |-> db.users[userID].team_name,
                    is_active |-> db.users[userID].is_active]]
    ELSE [err |-> NoError,
          user |-> [user_id |-> userID, team_name |-> 0, is_active |-> FALSE]]

GetUser(db, userID) ==
    IF userID \in DOMAIN db.users
    THEN [err |-> NoError,
          user |-> [user_id |-> userID,
                    team_name |-> db.users[userID].team_name,
                    is_active |-> db.users[userID].is_active]]
    ELSE [err |-> StorageError("user not found")]

\* UPDATE users SET is_active: an error when no row was affected.
StorageSetUserActive(db, userID, isActive) ==
    IF userID \in DOMAIN db.users
    THEN [err |-> NoError, db |-> [db EXCEPT !.users[userID].is_active = isActive]]
    ELSE [err |-> StorageError("user not found"), db |-> db]

\* GetActiveTeamMembers with "AND is_active = true" left out of the query.
GetActiveTeamMembersAnyFlag(db, teamName, excludeUserID) ==
    OrderByUserID({u \in DOMAIN db.users :
                      /\ db.users[u].team_name = teamName
                      /\ u # excludeUserID})

\* The active users of the team other than excludeUserID, by user_id.
GetActiveTeamMembers(db, teamName, excludeUserID) ==
    OrderByUserID({u \in DOMAIN db.users :
                      /\ db.users[u].team_name = teamName
                      /\ db.users[u].is_active = TRUE
                      /\ u # excludeUserID})

\* INSERT INTO pull_requests: the primary key rejects an id that is already
\* there, the foreign key an author_id that is no user.
StorageCreatePullRequest(db, pr) ==
    IF pr.pull_request_id \in DOMAIN db.pull_requests
       \/ pr.author_id \notin DOMAIN db.users
    THEN [err |-> StorageError("failed to create pull request"), db |-> db]
    ELSE [err |-> NoError,
          db |-> [db EXCEPT !.pull_requests =
                    (pr.pull_request_id :>
                        [pull_request_name |-> pr.pull_request_name,
                         author_id |-> pr.author_id,
                         status |-> pr.status,
                         created_at |-> pr.created_at,
                         merged_at |-> None]) @@ @]]

\* PRExists asking for another id than the one given: it finds no row.
PRExistsOtherID(db, prID) == FALSE

PRExists(db, prID) == prID \in DOMAIN db.pull_requests

\* SELECT user_id FROM pr_reviewers WHERE pull_request_id = $1 ORDER BY
\* user_id: one entry per row, from user id `from` on (n rows of `from`
\* are already listed).
RECURSIVE ReviewerRows(_, _, _, _)
ReviewerRows(db, prID, from, n) ==
    IF from > NumUsers THEN <<>>
    ELSE IF n < db.pr_reviewers[<<prID, from>>]
    THEN <<from>> \o ReviewerRows(db, prID, from, n + 1)
    ELSE ReviewerRows(db, prID, from + 1, 0)

GetReviewers(db, prID) == ReviewerRows(db, prID, 1, 0)

\* The row of the pull request with its reviewers attached.
GetPullRequest(db, prID) ==
    IF prID \in DOMAIN db.pull_requests
    THEN [err |-> NoError,
          pr |-> [pull_request_id |-> prID,
                  pull_request_name |-> db.pull_requests[prID].pull_request_name,
                  author_id |-> db.pull_requests[prID].author_id,
                  status |-> db.pull_requests[prID].status,
                  created_at |-> db.pull_requests[prID].created_at,
                  merged_at |-> db.pull_requests[prID].merged_at,
                  assigned_reviewers |-> GetReviewers(db, prID)]]
    ELSE [err |-> StorageError("pull request not found")]

\* The UPDATE of the merge with "AND status = 'OPEN'" left out.
MergeMatchesAnyStatus(db, prID) == prID \in DOMAIN db.pull_requests

\* WHERE pull_request_id = $1 AND status = 'OPEN'
MergeMatches(db, prID) ==
    prID \in DOMAIN db.pull_requests /\ db.pull_requests[prID].status = "OPEN"

\* StorageMergePullRequest taking "no row affected" for "not found",
\* without looking the id up.
StorageMergeNoRowsIsNotFound(db, prID) ==
    IF prID \in DOMAIN db.pull_requests /\ db.pull_requests[prID].status = "OPEN"
    THEN [err |-> NoError,
          db |-> [db EXCEPT !.pull_requests[prID].status = "MERGED",
                            !.pull_requests[prID].merged_at = Some(db.clock),
                            !.clock = @ + 1]]
    ELSE [err |-> StorageError("pull request not found"), db |-> db]

\* UPDATE pull_requests SET status = 'MERGED', merged_at = CURRENT_TIMESTAMP
\* on the matching row, which reads the clock; with no row affected the id
\* is looked up, and an absent one is an error.
StorageMergePullRequest(db, prID) ==
    IF MergeMatches(db, prID)
    THEN [err |-> NoError,
          db |-> [db EXCEPT !.pull_requests[prID].status = "MERGED",
                            !.pull_requests[prID].merged_at = Some(db.clock),
                            !.clock = @ + 1]]
    ELSE IF ~PRExists(db, prID)
    THEN [err |-> StorageError("pull request not found"), db |-> db]
    ELSE [err |-> NoError, db |-> db]

\* AddReviewer with "ON CONFLICT DO NOTHING" left out: the primary key of
\* pr_reviewers rejects the row that is there already.
AddReviewerNoOnConflict(db, prID, userID) ==
    IF prID \notin DOMAIN db.pull_requests \/ userID \notin DOMAIN db.users
    THEN [err |-> StorageError("failed to add reviewer"), db |-> db]
    ELSE IF db.pr_reviewers[<<prID, userID>>] > 0
    THEN [err |-> StorageError("failed to add reviewer"), db |-> db]
    ELSE [err |-> NoError, db |-> [db EXCEPT !.pr_reviewers[<<prID, userID>>] = 1]]

\* INSERT INTO pr_reviewers ... ON CONFLICT DO NOTHING: no row is written
\* when <<prID, userID>> is there; the foreign keys want the pull request
\* and the user to exist.
AddReviewer(db, prID, userID) ==
    IF prID \notin DOMAIN db.pull_requests \/ userID \notin DOMAIN db.users
    THEN [err |-> StorageError("failed to add reviewer"), db |-> db]
    ELSE IF db.pr_reviewers[<<prID, userID>>] > 0
    THEN [err |-> NoError, db |-> db]
    ELSE [err |-> NoError, db |-> [db EXCEPT !.pr_reviewers[<<prID, userID>>] = 1]]

\* RemoveReviewer with "AND user_id = $2" left out: every reviewer of the
\* pull request is deleted.
RemoveReviewerAllOfPR(db, prID, userID) ==
    [err |-> NoError,
     db |-> [db EXCEPT !.pr_reviewers =
               [row \in DOMAIN @ |-> IF row[1] = prID THEN 0 ELSE @[row]]]]

\* DELETE FROM pr_reviewers WHERE pull_request_id = $1 AND user_id = $2
RemoveReviewer(db, prID, userID) ==
    [err |-> NoError, db |-> [db EXCEPT !.pr_reviewers[<<prID, userID>>] = 0]]

\* IsReviewerAssigned with "AND user_id = $2" left out: true as soon as the
\* pull request has a reviewer.
IsReviewerAssignedAnyUser(db, prID, userID) ==
    \E u \in Users : db.pr_reviewers[<<prID, u>>] > 0

IsReviewerAssigned(db, prID, userID) == db.pr_reviewers[<<prID, userID>>] > 0

\* The pull request ids of a set by created_at, latest first (ORDER BY
\* pr.created_at DESC); every reading of the clock gives another time, and
\* the id settles what is left.
RECURSIVE OrderByCreatedAtDesc(_, _)
OrderByCreatedAtDesc(db, S) ==
    IF S = {} THEN <<>>
    ELSE LET latest == CHOOSE p \in S : \A q \in S :
                           \/ db.pull_requests[p].created_at > db.pull_requests[q].created_at
                           \/ /\ db.pull_requests[p].created_at = db.pull_requests[q].created_at
                              /\ p <= q
         IN <<latest>> \o OrderByCreatedAtDesc(db, S \ {latest})

\* GetPRsByReviewer with "AND pr.status = 'OPEN'" added to its WHERE: the
\* merged pull requests of the reviewer are left out.
GetPRsByReviewerOpenOnly(db, userID) ==
    LET listed == OrderByCreatedAtDesc(db,
                      {p \in DOMAIN db.pull_requests :
                          /\ db.pr_reviewers[<<p, userID>>] > 0
                          /\ db.pull_requests[p].status = "OPEN"})
    IN [i \in 1..Len(listed) |->
           [pull_request_id |-> listed[i],
            pull_request_name |-> db.pull_requests[listed[i]].pull_request_name,
            author_id |-> db.pull_requests[listed[i]].author_id,
            status |-> db.pull_requests[listed[i]].status]]

\* SELECT ... FROM pull_requests pr INNER JOIN pr_reviewers r ... WHERE
\* r.user_id = $1 ORDER BY pr.created_at DESC, as models.PullRequestShort.
GetPRsByReviewer(db, userID) ==
    LET listed == OrderByCreatedAtDesc(db,
                      {p \in DOMAIN db.pull_requests : db.pr_reviewers[<<p, userID>>] > 0})
    IN [i \in 1..Len(listed) |->
           [pull_request_id |-> listed[i],
            pull_request_name |-> db.pull_requests[listed[i]].pull_request_name,
            author_id |-> db.pull_requests[listed[i]].author_id,
            status |-> db.pull_requests[listed[i]].status]]

\* The team with its members, an error when there is no such team.  The
\* members come ORDER BY username; usernames are not in the model, and the
\* members are given as a set.
GetTeam(db, teamName) ==
    IF ~TeamExists(db, teamName) THEN [err |-> StorageError("team not found")]
    ELSE [err |-> NoError,
          team |-> [team_name |-> teamName,
                    members |-> {[user_id |-> u, is_active |-> db.users[u].is_active]
                                    : u \in {v \in DOMAIN db.users :
                                                db.users[v].team_name = teamName}}]]

----------------------------------------------------------------------------
Init ==
    /\ teams = {}
    /\ users = <<>>
    /\ pull_requests = <<>>
    /\ pr_reviewers = [row \in PRIds \X Users |-> 0]
    /\ clock = 1
    /\ requests = <<>>

\* The tables and the clock become those of db.
Store(db) ==
    /\ teams' = db.teams
    /\ users' = db.users
    /\ pull_requests' = db.pull_requests
    /\ pr_reviewers' = db.pr_reviewers
    /\ clock' = db.clock

\* The database a whole call leaves becomes the state.
Commit(db) ==
    /\ Store(db)
    /\ UNCHANGED requests

----------------------------------------------------------------------------
(* service: TEAMS, USERS                                                   *)

\* for _, member := range req.Members { CreateOrUpdateUser(...) }, left at
\* the first error.
RECURSIVE CreateMembers(_, _, _)
CreateMembers(db, teamName, members) ==
    IF members = <<>> THEN [err |-> NoError, db |-> db]
    ELSE LET member == Head(members)
             stored == CreateOrUpdateUser(db, [user_id |-> member.user_id,
                                              team_name |-> teamName,
                                              is_active |-> member.is_active])
         IN IF stored.err # NoError THEN stored
            ELSE CreateMembers(stored.db, teamName, Tail(members))

\* CreateTeam storing the members before it looks for the team: for a team
\* that exists the members are written and TEAM_EXISTS is answered.
CreateTeamMembersFirst(db, req) ==
    IF TeamExists(db, req.team_name)
    THEN {[err |-> ServiceError("TEAM_EXISTS"),
           db |-> CreateMembers(db, req.team_name, req.members).db]}
    ELSE LET created == StorageCreateTeam(db, req.team_name) IN
         IF created.err # NoError
         THEN {[err |-> created.err, db |-> created.db]}
         ELSE {CreateMembers(created.db, req.team_name, req.members)}

CreateTeam(db, req) ==
    IF TeamExists(db, req.team_name)
    THEN {[err |-> ServiceError("TEAM_EXISTS"), db |-> db]}
    ELSE LET created == StorageCreateTeam(db, req.team_name) IN
         IF created.err # NoError
         THEN {[err |-> created.err, db |-> created.db]}
         ELSE {CreateMembers(created.db, req.team_name, req.members)}

SetUserActive(db, userID, isActive) ==
    LET got == GetUser(db, userID) IN
    IF got.err # NoError
    THEN {[err |-> ServiceError("NOT_FOUND"), db |-> db, user |-> None]}
    ELSE LET set == StorageSetUserActive(db, userID, isActive) IN
         IF set.err # NoError
         THEN {[err |-> set.err, db |-> set.db, user |-> None]}
         ELSE {[err |-> NoError, db |-> set.db,
                user |-> Some([got.user EXCEPT !.is_active = isActive])]}

\* Service.GetPRsByReviewer: the user is looked up, then the pull requests
\* the user reviews are read.
ServiceGetPRsByReviewer(db, userID) ==
    IF GetUser(db, userID).err # NoError
    THEN {[err |-> ServiceError("NOT_FOUND"), prs |-> None]}
    ELSE {[err |-> NoError, prs |-> Some(GetPRsByReviewer(db, userID))]}

----------------------------------------------------------------------------
(* service: PULL REQUESTS                                                  *)

\* The cap CreatePullRequest passes to assignReviewers.
MaxCount == 2

\* rand.Shuffle: every order of the list is a possible outcome.
Shuffle(list) ==
    {[i \in 1..Len(list) |-> list[p[i]]] : p \in Permutations(1..Len(list))}

\* The count of assignReviewers without the cap.
CountUncapped(maxCount, candidates) == Len(candidates)

\* count := maxCount; if len(candidates) < count { count = len(candidates) }
Count(maxCount, candidates) ==
    IF Len(candidates) < maxCount THEN Len(candidates) ELSE maxCount

\* The lists assignReviewers can return: the first count entries of a
\* shuffle of the candidates.
assignReviewers(db, teamName, excludeUserID, maxCount) ==
    LET candidates == GetActiveTeamMembers(db, teamName, excludeUserID)
        count == Count(maxCount, candidates)
    IN {SubSeq(shuffled, 1, count) : shuffled \in Shuffle(candidates)}

\* for _, reviewerID := range reviewers { AddReviewer(...) }, left at the
\* first error.
RECURSIVE AddReviewers(_, _, _)
AddReviewers(db, prID, reviewers) ==
    IF reviewers = <<>> THEN [err |-> NoError, db |-> db]
    ELSE LET added == AddReviewer(db, prID, Head(reviewers))
         IN IF added.err # NoError THEN added
            ELSE AddReviewers(added.db, prID, Tail(reviewers))

CreatePullRequest(db, prID, prName, authorID) ==
    LET failed(e, d) == [err |-> e, db |-> d, pr |-> None]
        author == GetUser(db, authorID)
    IN
    IF PRExists(db, prID) THEN {failed(ServiceError("PR_EXISTS"), db)}
    ELSE IF author.err # NoError THEN {failed(ServiceError("NOT_FOUND"), db)}
    ELSE
        LET pr == [pull_request_id |-> prID,
                   pull_request_name |-> prName,
                   author_id |-> authorID,
                   status |-> "OPEN",
                   created_at |-> db.clock,
                   merged_at |-> None]
            created == StorageCreatePullRequest([db EXCEPT !.clock = @ + 1], pr)
        IN
        IF created.err # NoError THEN {failed(created.err, created.db)}
        ELSE
            {LET added == AddReviewers(created.db, prID, reviewers) IN
             IF added.err # NoError THEN failed(added.err, added.db)
             ELSE [err |-> NoError, db |-> added.db,
                   pr |-> Some(pr @@ [assigned_reviewers |-> reviewers])]
               : reviewers \in assignReviewers(created.db, author.user.team_name,
                                               authorID, MaxCount)}

MergePullRequest(db, prID) ==
    LET merged == StorageMergePullRequest(db, prID) IN
    IF merged.err # NoError
    THEN {[err |-> merged.err, db |-> merged.db, pr |-> None]}
    ELSE LET got == GetPullRequest(merged.db, prID) IN
         IF got.err # NoError
         THEN {[err |-> got.err, db |-> merged.db, pr |-> None]}
         ELSE {[err |-> NoError, db |-> merged.db, pr |-> Some(got.pr)]}

\* The status check comparing with a value the status never has.
IsMergedLowercase(pr) == pr.status = "merged"

\* if pr.Status == "MERGED"
IsMerged(pr) == pr.status = "MERGED"

\* availableCandidates without "if candidate.UserID == pr.AuthorID { continue }".
RECURSIVE AvailableCandidatesWithAuthor(_, _, _, _)
AvailableCandidatesWithAuthor(db, candidates, prID, authorID) ==
    IF candidates = <<>> THEN <<>>
    ELSE LET candidate == Head(candidates)
             rest == AvailableCandidatesWithAuthor(db, Tail(candidates), prID, authorID)
         IN IF ~IsReviewerAssigned(db, prID, candidate) THEN <<candidate>> \o rest
            ELSE rest

\* var availableCandidates: the candidates that are neither the author of
\* the pull request nor assigned to it, in the order of the listing.
RECURSIVE AvailableCandidates(_, _, _, _)
AvailableCandidates(db, candidates, prID, authorID) ==
    IF candidates = <<>> THEN <<>>
    ELSE LET candidate == Head(candidates)
             rest == AvailableCandidates(db, Tail(candidates), prID, authorID)
         IN IF candidate = authorID THEN rest
            ELSE IF ~IsReviewerAssigned(db, prID, candidate) THEN <<candidate>> \o rest
            ELSE rest

\* RemoveReviewer, AddReviewer, GetPullRequest: the writes of a reassignment
\* and the answer read back.
Replace(db, prID, oldReviewerID, newReviewerID) ==
    LET failed(e, d) == [err |-> e, db |-> d, pr |-> None, replaced_by |-> None]
        removed == RemoveReviewer(db, prID, oldReviewerID)
    IN
    IF removed.err # NoError THEN failed(removed.err, removed.db)
    ELSE LET added == AddReviewer(removed.db, prID, newReviewerID) IN
         IF added.err # NoError THEN failed(added.err, added.db)
         ELSE LET again == GetPullRequest(added.db, prID) IN
              IF again.err # NoError THEN failed(again.err, added.db)
              ELSE [err |-> NoError, db |-> added.db, pr |-> Some(again.pr),
                    replaced_by |-> Some(newReviewerID)]

\* ReassignReviewer looking the outgoing user up before asking whether that
\* user is assigned: the fourth check made third.
ReassignReviewerUserBeforeAssigned(db, prID, oldReviewerID) ==
    LET failed(e) == [err |-> e, db |-> db, pr |-> None, replaced_by |-> None]
        got == GetPullRequest(db, prID)
        oldReviewer == GetUser(db, oldReviewerID)
    IN
    IF got.err # NoError THEN {failed(ServiceError("NOT_FOUND"))}
    ELSE IF IsMerged(got.pr) THEN {failed(ServiceError("PR_MERGED"))}
    ELSE IF oldReviewer.err # NoError THEN {failed(ServiceError("NOT_FOUND"))}
    ELSE IF ~IsReviewerAssigned(db, prID, oldReviewerID)
    THEN {failed(ServiceError("NOT_ASSIGNED"))}
    ELSE
        LET candidates == GetActiveTeamMembers(db, oldReviewer.user.team_name,
                                               oldReviewerID)
            availableCandidates ==
                AvailableCandidates(db, candidates, prID, got.pr.author_id)
        IN
        IF Len(availableCandidates) = 0 THEN {failed(ServiceError("NO_CANDIDATE"))}
        ELSE {Replace(db, prID, oldReviewerID, availableCandidates[i])
                : i \in 1..Len(availableCandidates)}

ReassignReviewer(db, prID, oldReviewerID) ==
    LET failed(e) == [err |-> e, db |-> db, pr |-> None, replaced_by |-> None]
        got == GetPullRequest(db, prID)
        oldReviewer == GetUser(db, oldReviewerID)
    IN
    IF got.err # NoError THEN {failed(ServiceError("NOT_FOUND"))}
    ELSE IF IsMerged(got.pr) THEN {failed(ServiceError("PR_MERGED"))}
    ELSE IF ~IsReviewerAssigned(db, prID, oldReviewerID)
    THEN {failed(ServiceError("NOT_ASSIGNED"))}
    ELSE IF oldReviewer.err # NoError THEN {failed(ServiceError("NOT_FOUND"))}
    ELSE
        LET candidates == GetActiveTeamMembers(db, oldReviewer.user.team_name,
                                               oldReviewerID)
            availableCandidates ==
                AvailableCandidates(db, candidates, prID, got.pr.author_id)
        IN
        IF Len(availableCandidates) = 0 THEN {failed(ServiceError("NO_CANDIDATE"))}
        ELSE \* rand.Intn(len(availableCandidates))
             {Replace(db, prID, oldReviewerID, availableCandidates[i])
                : i \in 1..Len(availableCandidates)}

----------------------------------------------------------------------------
(* internal/controller/controller.go                                       *)

\* What the handler of POST /pullRequest/merge answers for a result of the
\* service: 404 for a ServiceError of code NOT_FOUND, 500 for every other
\* error, 200 otherwise.
ControllerMergePullRequest(result) ==
    IF result.err # NoError
    THEN IF result.err.typed /\ result.err.code = "NOT_FOUND"
         THEN [status |-> 404, code |-> result.err.code]
         ELSE [status |-> 500, code |-> "INTERNAL_ERROR"]
    ELSE [status |-> 200, code |-> "nil"]

\* What the handler of POST /team/add answers.
ControllerCreateTeam(result) ==
    IF result.err # NoError
    THEN IF result.err.typed /\ result.err.code = "TEAM_EXISTS"
         THEN [status |-> 400, code |-> result.err.code]
         ELSE [status |-> 500, code |-> "INTERNAL_ERROR"]
    ELSE [status |-> 201, code |-> "nil"]

\* What the handler of POST /pullRequest/create answers.
ControllerCreatePullRequest(result) ==
    IF result.err # NoError
    THEN IF result.err.typed /\ result.err.code = "PR_EXISTS"
         THEN [status |-> 409, code |-> result.err.code]
         ELSE IF result.err.typed /\ result.err.code = "NOT_FOUND"
         THEN [status |-> 404, code |-> result.err.code]
         ELSE [status |-> 500, code |-> "INTERNAL_ERROR"]
    ELSE [status |-> 201, code |-> "nil"]

----------------------------------------------------------------------------
(* The requests.                                                           *)

\* The member lists of a team request.  A list naming a user id twice has
\* the effect of its last entry for that id, so the lists drawn name every
\* id at most once, by ascending id.
MemberLists ==
    {[i \in 1..Len(OrderByUserID(DOMAIN m)) |->
         [user_id |-> OrderByUserID(DOMAIN m)[i],
          is_active |-> m[OrderByUserID(DOMAIN m)[i]]]]
       : m \in UNION {[S -> BOOLEAN] : S \in SUBSET Users}}

\* The members of a request are read only when the team does not exist yet:
\* for a team that exists one request stands for all.
DoCreateTeam ==
    \E teamName \in Teams :
        \E members \in IF TeamExists(DB, teamName) THEN {<<>>} ELSE MemberLists :
            \E result \in CreateTeam(DB, [team_name |-> teamName, members |-> members]) :
                Commit(result.db)

DoSetUserActive ==
    \E userID \in Users, isActive \in BOOLEAN :
        \E result \in SetUserActive(DB, userID, isActive) : Commit(result.db)

DoCreatePullRequest ==
    \E prID \in PRIds, prName \in PRNames, authorID \in Users :
        \E result \in CreatePullRequest(DB, prID, prName, authorID) :
            Commit(result.db)

DoMergePullRequest ==
    \E prID \in PRIds :
        \E result \in MergePullRequest(DB, prID) : Commit(result.db)

DoReassignReviewer ==
    \E prID \in PRIds, oldReviewerID \in Users :
        \E result \in ReassignReviewer(DB, prID, oldReviewerID) : Commit(result.db)

Next ==
    \/ DoCreateTeam
    \/ DoSetUserActive
    \/ DoCreatePullRequest
    \/ DoMergePullRequest
    \/ DoReassignReviewer

Spec == Init /\ [][Next]_vars

----------------------------------------------------------------------------
(* The calls followed store call by store call.                            *)
(*                                                                         *)
(* The handlers run on one goroutine per HTTP request and share nothing    *)
(* but the database; no transaction spans two calls of the Storage         *)
(* interface.  Here a call of the service is a request in a slot of        *)
(* `requests`: its arguments, its position pc (the Storage call it makes   *)
(* next, "return" once it has returned), the local variables it carries    *)
(* from one Storage call to the next and, returned, its error and answer.  *)
(* A step of a request is one Storage call and the handler's code up to    *)
(* the next one; each Storage call is one step, although GetPullRequest    *)
(* and MergePullRequest are two statements each in storage.go.  With       *)
(* `down` the Storage call of the step fails (connection lost, statement   *)
(* refused) and writes nothing.  The locals a handler does not read again  *)
(* are not kept.  The clock moves on when a time read from it is stored.   *)

\* How many requests can be in flight together.
NumRequests == 2

\* What the requests followed call by call ask for: pull requests of two
\* authors under one title, and the activity of the last user.  Every user
\* can be the outgoing reviewer of a reassignment.
Authors == {1, 2}
Titles == {"title-a"}
Toggled == {NumUsers}

Idle ==
    [op |-> "idle", pc |-> "idle", prID |-> 0, prName |-> "", userID |-> 0,
     isActive |-> FALSE, teamName |-> 0, pr |-> None, candidates |-> <<>>,
     availableCandidates |-> <<>>, reviewers |-> <<>>, added |-> 0,
     newReviewerID |-> 0, err |-> NoError, answer |-> None]

\* A handler entered: its arguments, and the Storage call it makes first.
Entered(op, pc, prID, prName, userID, isActive, teamName) ==
    [Idle EXCEPT !.op = op, !.pc = pc, !.prID = prID, !.prName = prName,
                 !.userID = userID, !.isActive = isActive, !.teamName = teamName]

\* return answer, err
Return(req, err, answer) ==
    [req EXCEPT !.pc = "return", !.err = err, !.answer = answer]

\* The outcome of a step: the request and the database after it.
Go(req, db) == [req |-> req, db |-> db]

\* if err != nil { return fmt.Errorf("<message>: %w", err) } in storage.go:
\* the Storage call that failed gives an untyped error and has written
\* nothing.
Down(message, db) == [err |-> StorageError(message), db |-> db]

\* AddReviewer whose failure is logged and not returned.
AddReviewerOrDownSwallowed(db, down, prID, userID) ==
    IF down THEN [err |-> NoError, db |-> db] ELSE AddReviewer(db, prID, userID)

\* AddReviewer on a store that may be down.
AddReviewerOrDown(db, down, prID, userID) ==
    IF down THEN Down("failed to add reviewer", db) ELSE AddReviewer(db, prID, userID)

\* GetUser on a store that may be down.
GetUserOrDown(db, down, userID) ==
    IF down THEN Down("failed to get user", db) ELSE GetUser(db, userID)

\* GetPullRequest on a store that may be down.
GetPullRequestOrDown(db, down, prID) ==
    IF down THEN Down("failed to get pull request", db) ELSE GetPullRequest(db, prID)

\* Service.CreatePullRequest, one Storage call.
CreatePullRequestStep(db, req, down) ==
    CASE req.pc = "PRExists" ->
            IF down
            THEN {Go(Return(req, StorageError("failed to check PR existence"), None), db)}
            ELSE IF PRExists(db, req.prID)
            THEN {Go(Return(req, ServiceError("PR_EXISTS"), None), db)}
            ELSE {Go([req EXCEPT !.pc = "GetUser"], db)}
      [] req.pc = "GetUser" ->
            LET author == GetUserOrDown(db, down, req.userID) IN
            IF author.err # NoError
            THEN {Go(Return(req, ServiceError("NOT_FOUND"), None), db)}
            ELSE \* pr := &models.PullRequest{..., CreatedAt: time.Now()}
                 {Go([req EXCEPT !.pc = "CreatePullRequest",
                                 !.teamName = author.user.team_name,
                                 !.pr = Some([pull_request_id |-> req.prID,
                                              pull_request_name |-> req.prName,
                                              author_id |-> req.userID,
                                              status |-> "OPEN",
                                              created_at |-> db.clock,
                                              merged_at |-> None,
                                              assigned_reviewers |-> <<>>])],
                     db)}
      [] req.pc = "CreatePullRequest" ->
            LET created == IF down THEN Down("failed to create pull request", db)
                           ELSE StorageCreatePullRequest([db EXCEPT !.clock = @ + 1],
                                                         req.pr[1])
            IN IF created.err # NoError
               THEN {Go(Return(req, created.err, None), db)}
               ELSE {Go([req EXCEPT !.pc = "GetActiveTeamMembers"], created.db)}
      [] req.pc = "GetActiveTeamMembers" ->
            IF down
            THEN {Go(Return(req, StorageError("failed to get active team members"), None), db)}
            ELSE {IF reviewers = <<>>
                  THEN Go(Return(req, NoError, req.pr), db)
                  ELSE Go([req EXCEPT !.pc = "AddReviewer", !.reviewers = reviewers,
                                      !.teamName = 0], db)
                    : reviewers \in assignReviewers(db, req.teamName, req.userID, MaxCount)}
      [] req.pc = "AddReviewer" ->
            LET added == AddReviewerOrDown(db, down, req.prID, req.reviewers[req.added + 1])
            IN IF added.err # NoError
               THEN {Go(Return(req, added.err, None), added.db)}
               ELSE IF req.added + 1 < Len(req.reviewers)
               THEN {Go([req EXCEPT !.added = @ + 1], added.db)}
               ELSE \* pr.AssignedReviewers = reviewers
                    {Go(Return([req EXCEPT !.added = @ + 1], NoError,
                               Some([req.pr[1] EXCEPT !.assigned_reviewers = req.reviewers])),
                        added.db)}

\* Service.MergePullRequest, one Storage call.
MergePullRequestStep(db, req, down) ==
    CASE req.pc = "MergePullRequest" ->
            LET merged == IF down THEN Down("failed to merge pull request", db)
                          ELSE StorageMergePullRequest(db, req.prID)
            IN IF merged.err # NoError
               THEN {Go(Return(req, merged.err, None), merged.db)}
               ELSE {Go([req EXCEPT !.pc = "GetPullRequest"], merged.db)}
      [] req.pc = "GetPullRequest" ->
            LET got == GetPullRequestOrDown(db, down, req.prID) IN
            IF got.err # NoError
            THEN {Go(Return(req, got.err, None), db)}
            ELSE {Go(Return(req, NoError, Some(got.pr)), db)}

\* for _, candidate := range candidates: the candidates up to the next one
\* that is not the author are passed without a Storage call.
RECURSIVE SkipAuthor(_, _)
SkipAuthor(candidates, authorID) ==
    IF candidates # <<>> /\ Head(candidates) = authorID
    THEN SkipAuthor(Tail(candidates), authorID)
    ELSE candidates

\* The loop over the candidates of a reassignment up to its next Storage
\* call: IsReviewerAssigned for a candidate, or, the candidates gone
\* through, NO_CANDIDATE with none available and else the draw of
\* rand.Intn and RemoveReviewer.
NextCandidate(db, req) ==
    LET rest == SkipAuthor(req.candidates, req.pr[1].author_id) IN
    IF rest # <<>>
    THEN {Go([req EXCEPT !.pc = "IsReviewerAssignedCandidate", !.candidates = rest], db)}
    ELSE IF Len(req.availableCandidates) = 0
    THEN {Go(Return([req EXCEPT !.candidates = <<>>, !.teamName = 0],
                    ServiceError("NO_CANDIDATE"), None), db)}
    ELSE {Go([req EXCEPT !.pc = "RemoveReviewer", !.candidates = <<>>,
                         !.availableCandidates = <<>>, !.teamName = 0,
                         !.newReviewerID = req.availableCandidates[i]], db)
            : i \in 1..Len(req.availableCandidates)}

\* Service.ReassignReviewer, one Storage call.
ReassignReviewerStep(db, req, down) ==
    CASE req.pc = "GetPullRequest" ->
            LET got == GetPullRequestOrDown(db, down, req.prID) IN
            IF got.err # NoError
            THEN {Go(Return(req, ServiceError("NOT_FOUND"), None), db)}
            ELSE IF IsMerged(got.pr)
            THEN {Go(Return(req, ServiceError("PR_MERGED"), None), db)}
            ELSE {Go([req EXCEPT !.pc = "IsReviewerAssigned", !.pr = Some(got.pr)], db)}
      [] req.pc = "IsReviewerAssigned" ->
            IF down
            THEN {Go(Return(req, StorageError("failed to check reviewer assignment"), None), db)}
            ELSE IF ~IsReviewerAssigned(db, req.prID, req.userID)
            THEN {Go(Return(req, ServiceError("NOT_ASSIGNED"), None), db)}
            ELSE {Go([req EXCEPT !.pc = "GetUser"], db)}
      [] req.pc = "GetUser" ->
            LET oldReviewer == GetUserOrDown(db, down, req.userID) IN
            IF oldReviewer.err # NoError
            THEN {Go(Return(req, ServiceError("NOT_FOUND"), None), db)}
            ELSE {Go([req EXCEPT !.pc = "GetActiveTeamMembers",
                                 !.teamName = oldReviewer.user.team_name], db)}
      [] req.pc = "GetActiveTeamMembers" ->
            IF down
            THEN {Go(Return(req, StorageError("failed to get active team members"), None), db)}
            ELSE NextCandidate(db, [req EXCEPT !.candidates =
                                      GetActiveTeamMembers(db, req.teamName, req.userID)])
      [] req.pc = "IsReviewerAssignedCandidate" ->
            IF down
            THEN {Go(Return(req, StorageError("failed to check reviewer assignment"), None), db)}
            ELSE LET candidate == Head(req.candidates) IN
                 NextCandidate(db,
                    [req EXCEPT !.candidates = Tail(@),
                                !.availableCandidates =
                                    IF ~IsReviewerAssigned(db, req.prID, candidate)
                                    THEN Append(@, candidate) ELSE @])
      [] req.pc = "RemoveReviewer" ->
            LET removed == IF down THEN Down("failed to remove reviewer", db)
                           ELSE RemoveReviewer(db, req.prID, req.userID)
            IN IF removed.err # NoError
               THEN {Go(Return(req, removed.err, None), removed.db)}
               ELSE {Go([req EXCEPT !.pc = "AddReviewer"], removed.db)}
      [] req.pc = "AddReviewer" ->
            LET added == AddReviewerOrDown(db, down, req.prID, req.newReviewerID) IN
            IF added.err # NoError
            THEN {Go(Return(req, added.err, None), added.db)}
            ELSE {Go([req EXCEPT !.pc = "GetPullRequestAgain"], added.db)}
      [] req.pc = "GetPullRequestAgain" ->
            LET got == GetPullRequestOrDown(db, down, req.prID) IN
            IF got.err # NoError
            THEN {Go(Return(req, got.err, None), db)}
            ELSE {Go(Return(req, NoError, Some(got.pr)), db)}

\* Service.SetUserActive, one Storage call.
SetUserActiveStep(db, req, down) ==
    CASE req.pc = "GetUser" ->
            LET got == GetUserOrDown(db, down, req.userID) IN
            IF got.err # NoError
            THEN {Go(Return(req, ServiceError("NOT_FOUND"), None), db)}
            ELSE {Go([req EXCEPT !.pc = "SetUserActive",
                                 !.teamName = got.user.team_name], db)}
      [] req.pc = "SetUserActive" ->
            LET set == IF down THEN Down("failed to set user active", db)
                       ELSE StorageSetUserActive(db, req.userID, req.isActive)
            IN IF set.err # NoError
               THEN {Go(Return(req, set.err, None), set.db)}
               ELSE \* user.IsActive = isActive
                    {Go(Return(req, NoError,
                               Some([user_id |-> req.userID, team_name |-> req.teamName,
                                     is_active |-> req.isActive])), set.db)}

\* Service.GetPRsByReviewer, one Storage call.
GetPRsByReviewerStep(db, req, down) ==
    CASE req.pc = "GetUser" ->
            LET got == GetUserOrDown(db, down, req.userID) IN
            IF got.err # NoError
            THEN {Go(Return(req, ServiceError("NOT_FOUND"), None), db)}
            ELSE {Go([req EXCEPT !.pc = "GetPRsByReviewer"], db)}
      [] req.pc = "GetPRsByReviewer" ->
            IF down
            THEN {Go(Return(req, StorageError("failed to get PRs by reviewer"), None), db)}
            ELSE {Go(Return(req, NoError, Some(GetPRsByReviewer(db, req.userID))), db)}

\* Service.GetTeam: its one Storage call.
GetTeamStep(db, req, down) ==
    CASE req.pc = "GetTeam" ->
            LET team == IF down THEN Down("failed to check team existence", db)
                        ELSE GetTeam(db, req.teamName)
            IN IF team.err # NoError
               THEN {Go(Return(req, ServiceError("NOT_FOUND"), None), db)}
               ELSE {Go(Return(req, NoError, Some(team.team)), db)}

\* The step of a request, whatever its handler.
Step(db, req, down) ==
    CASE req.op = "CreatePullRequest" -> CreatePullRequestStep(db, req, down)
      [] req.op = "MergePullRequest" -> MergePullRequestStep(db, req, down)
      [] req.op = "ReassignReviewer" -> ReassignReviewerStep(db, req, down)
      [] req.op = "SetUserActive" -> SetUserActiveStep(db, req, down)
      [] req.op = "GetPRsByReviewer" -> GetPRsByReviewerStep(db, req, down)
      [] req.op = "GetTeam" -> GetTeamStep(db, req, down)

\* The slots there can be; those in use are DOMAIN requests.
Slots == 1..NumRequests

\* Whether the request of the slot is between its entry and its return.
InFlight(s) ==
    s \in DOMAIN requests /\ requests[s].op # "idle" /\ requests[s].pc # "return"

\* A request takes the first slot that is free.
Enter(s, req) ==
    /\ s \in DOMAIN requests
    /\ requests[s].op = "idle"
    /\ \A t \in DOMAIN requests : t < s => requests[t].op # "idle"
    /\ requests' = [requests EXCEPT ![s] = req]
    /\ UNCHANGED <<teams, users, pull_requests, pr_reviewers, clock>>

Take(s, outcome) ==
    /\ requests' = [requests EXCEPT ![s] = outcome.req]
    /\ Store(outcome.db)

BeginCreatePullRequest(s) ==
    \E prID \in PRIds, prName \in Titles, authorID \in Authors :
        Enter(s, Entered("CreatePullRequest", "PRExists", prID, prName, authorID, FALSE, 0))

BeginMergePullRequest(s) ==
    \E prID \in PRIds :
        Enter(s, Entered("MergePullRequest", "MergePullRequest", prID, "", 0, FALSE, 0))

BeginReassignReviewer(s) ==
    \E prID \in PRIds, oldReviewerID \in Users :
        Enter(s, Entered("ReassignReviewer", "GetPullRequest", prID, "", oldReviewerID, FALSE, 0))

BeginSetUserActive(s) ==
    \E userID \in Toggled, isActive \in BOOLEAN :
        Enter(s, Entered("SetUserActive", "GetUser", 0, "", userID, isActive, 0))

BeginGetPRsByReviewer(s) ==
    \E userID \in Users :
        Enter(s, Entered("GetPRsByReviewer", "GetUser", 0, "", userID, FALSE, 0))

BeginGetTeam(s) ==
    \E teamName \in Teams :
        Enter(s, Entered("GetTeam", "GetTeam", 0, "", 0, FALSE, teamName))

StepCreatePullRequest(s, down) ==
    /\ InFlight(s) /\ requests[s].op = "CreatePullRequest"
    /\ \E outcome \in CreatePullRequestStep(DB, requests[s], down) : Take(s, outcome)

StepMergePullRequest(s, down) ==
    /\ InFlight(s) /\ requests[s].op = "MergePullRequest"
    /\ \E outcome \in MergePullRequestStep(DB, requests[s], down) : Take(s, outcome)

StepReassignReviewer(s, down) ==
    /\ InFlight(s) /\ requests[s].op = "ReassignReviewer"
    /\ \E outcome \in ReassignReviewerStep(DB, requests[s], down) : Take(s, outcome)

StepSetUserActive(s, down) ==
    /\ InFlight(s) /\ requests[s].op = "SetUserActive"
    /\ \E outcome \in SetUserActiveStep(DB, requests[s], down) : Take(s, outcome)

StepGetPRsByReviewer(s, down) ==
    /\ InFlight(s) /\ requests[s].op = "GetPRsByReviewer"
    /\ \E outcome \in GetPRsByReviewerStep(DB, requests[s], down) : Take(s, outcome)

StepGetTeam(s, down) ==
    /\ InFlight(s) /\ requests[s].op = "GetTeam"
    /\ \E outcome \in GetTeamStep(DB, requests[s], down) : Take(s, outcome)

\* The answer is with the caller: the slot is free again.
Respond(s) ==
    /\ s \in DOMAIN requests
    /\ requests[s].pc = "return"
    /\ requests' = [requests EXCEPT ![s] = Idle]
    /\ UNCHANGED <<teams, users, pull_requests, pr_reviewers, clock>>

\* The database before the first request: nothing.
Empty ==
    [teams |-> {}, users |-> <<>>, pull_requests |-> <<>>,
     pr_reviewers |-> [row \in PRIds \X Users |-> 0], clock |-> 1]

\* The database the requests start from: the one CreateTeam leaves when
\* asked, first of all, for team 1 with every user an active member.
Populated ==
    LET everyone == [i \in 1..NumUsers |-> [user_id |-> i, is_active |-> TRUE]]
    IN (CHOOSE result \in CreateTeam(Empty, [team_name |-> 1, members |-> everyone])
           : TRUE).db

InitRequests(n) ==
    /\ teams = Populated.teams
    /\ users = Populated.users
    /\ pull_requests = Populated.pull_requests
    /\ pr_reviewers = Populated.pr_reviewers
    /\ clock = Populated.clock
    /\ requests = [s \in 1..n |-> Idle]

\* NumRequests requests at a time, their Storage calls interleaved, on a
\* store that does not fail.
InitConcurrent == InitRequests(NumRequests)

NextConcurrent ==
    \/ \E s \in Slots : BeginCreatePullRequest(s)
    \/ \E s \in Slots : BeginMergePullRequest(s)
    \/ \E s \in Slots : BeginReassignReviewer(s)
    \/ \E s \in Slots : BeginSetUserActive(s)
    \/ \E s \in Slots : BeginGetPRsByReviewer(s)
    \/ \E s \in Slots : StepCreatePullRequest(s, FALSE)
    \/ \E s \in Slots : StepMergePullRequest(s, FALSE)
    \/ \E s \in Slots : StepReassignReviewer(s, FALSE)
    \/ \E s \in Slots : StepSetUserActive(s, FALSE)
    \/ \E s \in Slots : StepGetPRsByReviewer(s, FALSE)
    \/ \E s \in Slots : Respond(s)

SpecConcurrent == InitConcurrent /\ [][NextConcurrent]_vars

\* One request at a time on a store of which any call may fail.
InitFaults == InitRequests(1)

NextFaults ==
    \/ \E s \in Slots : BeginCreatePullRequest(s)
    \/ \E s \in Slots : BeginMergePullRequest(s)
    \/ \E s \in Slots : BeginReassignReviewer(s)
    \/ \E s \in Slots : BeginSetUserActive(s)
    \/ \E s \in Slots : BeginGetPRsByReviewer(s)
    \/ \E s \in Slots : BeginGetTeam(s)
    \/ \E s \in Slots, down \in BOOLEAN : StepCreatePullRequest(s, down)
    \/ \E s \in Slots, down \in BOOLEAN : StepMergePullRequest(s, down)
    \/ \E s \in Slots, down \in BOOLEAN : StepReassignReviewer(s, down)
    \/ \E s \in Slots, down \in BOOLEAN : StepSetUserActive(s, down)
    \/ \E s \in Slots, down \in BOOLEAN : StepGetPRsByReviewer(s, down)
    \/ \E s \in Slots, down \in BOOLEAN : StepGetTeam(s, down)
    \/ \E s \in Slots : Respond(s)

SpecFaults == InitFaults /\ [][NextFaults]_vars

----------------------------------------------------------------------------
(* Properties.  Each is stated of every call that can be made in a         *)
(* reachable state: of every result the service method can give there and  *)
(* of the database that result leaves.                                     *)

Range(list) == {list[i] : i \in 1..Len(list)}

NoDuplicates(list) ==
    \A i, j \in 1..Len(list) : i # j => list[i] # list[j]

Smaller(a, b) == IF a < b THEN a ELSE b

\* The active members of the author's team other than the author.
ActiveTeammates(authorID) ==
    {u \in DOMAIN users :
        /\ users[u].team_name = users[authorID].team_name
        /\ users[u].is_active
        /\ u # authorID}

\* C1: a CreatePullRequest that succeeds assigns exactly min(k, 2)
\* reviewers, k being the number of active members of the author's team
\* other than the author; they are pairwise distinct, active members of the
\* author's team and not the author; the rows written are these reviewers;
\* and a new id with a known author always succeeds, with zero reviewers
\* when the author is the only active member.
CreateAssignsMinK2 ==
    \A prID \in PRIds, prName \in PRNames, authorID \in Users :
        /\ CreatePullRequest(DB, prID, prName, authorID) # {}
        /\ \A result \in CreatePullRequest(DB, prID, prName, authorID) :
            /\ (~PRExists(DB, prID) /\ authorID \in DOMAIN users)
                  => result.err = NoError
            /\ result.err = NoError =>
                LET assigned == result.pr[1].assigned_reviewers
                    k == Cardinality(ActiveTeammates(authorID))
                IN /\ Len(assigned) = Smaller(k, 2)
                   /\ NoDuplicates(assigned)
                   /\ Range(assigned) \subseteq ActiveTeammates(authorID)
                   /\ authorID \notin Range(assigned)
                   /\ NoDuplicates(GetReviewers(result.db, prID))
                   /\ Range(GetReviewers(result.db, prID)) = Range(assigned)
                   /\ (k = 0 => assigned = <<>>)

\* C1 happens: a pull request is created by an author with three active
\* teammates, and the cap decides: two of them are assigned.
CreateAssignsMinK2Witness ==
    \E prID \in PRIds, a \in DOMAIN users :
        /\ ~PRExists(DB, prID)
        /\ Cardinality(ActiveTeammates(a)) = 3
        /\ \E result \in CreatePullRequest(DB, prID, "title-a", a) :
              result.err = NoError /\ Len(result.pr[1].assigned_reviewers) = 2

\* C1 also happens with an author who is the only active member of the
\* team: the pull request is created with no reviewer.
CreateAloneWitness ==
    \E prID \in PRIds, b \in DOMAIN users :
        /\ ~PRExists(DB, prID)
        /\ users[b].is_active
        /\ Cardinality(ActiveTeammates(b)) = 0
        /\ \E other \in DOMAIN users :
              other # b /\ users[other].team_name = users[b].team_name
        /\ \E result \in CreatePullRequest(DB, prID, "title-a", b) :
              result.err = NoError /\ result.pr[1].assigned_reviewers = <<>>

\* C2: in every reachable state the reviewers of every pull request are
\* pairwise distinct and none of them is its author.
ReviewersDistinctNotAuthor ==
    \A prID \in DOMAIN pull_requests :
        /\ NoDuplicates(GetReviewers(DB, prID))
        /\ pull_requests[prID].author_id \notin Range(GetReviewers(DB, prID))

\* C2 happens: an OPEN pull request has two reviewers, one of them in the
\* team of the author, who is active: replacing that reviewer, the author is
\* among the active members listed.
ReviewersDistinctNotAuthorWitness ==
    \E prID \in DOMAIN pull_requests, u \in Users :
        /\ Len(GetReviewers(DB, prID)) = 2
        /\ u \in Range(GetReviewers(DB, prID))
        /\ users[u].team_name = users[pull_requests[prID].author_id].team_name
        /\ users[pull_requests[prID].author_id].is_active
        /\ pull_requests[prID].status = "OPEN"

\* C3: ReassignReviewer on a MERGED pull request fails with PR_MERGED for
\* every outgoing user id and leaves the reviewers as they were.
ReassignOnMergedFails ==
    \A prID \in DOMAIN pull_requests, oldReviewerID \in Users :
        pull_requests[prID].status = "MERGED" =>
            /\ ReassignReviewer(DB, prID, oldReviewerID) # {}
            /\ \A result \in ReassignReviewer(DB, prID, oldReviewerID) :
                /\ result.err = ServiceError("PR_MERGED")
                /\ result.db.pr_reviewers = pr_reviewers
                /\ GetReviewers(result.db, prID) = GetReviewers(DB, prID)

\* C3 happens: a MERGED pull request has a reviewer for whom a replacement
\* is at hand, and the call answers PR_MERGED.
ReassignOnMergedFailsWitness ==
    \E prID \in DOMAIN pull_requests, old \in Users, new \in DOMAIN users :
        /\ pull_requests[prID].status = "MERGED"
        /\ IsReviewerAssigned(DB, prID, old)
        /\ new # old
        /\ new # pull_requests[prID].author_id
        /\ ~IsReviewerAssigned(DB, prID, new)
        /\ users[new].is_active
        /\ users[new].team_name = users[old].team_name
        /\ \E result \in ReassignReviewer(DB, prID, old) :
              result.err = ServiceError("PR_MERGED")

\* C4: a ReassignReviewer(pr, old) that succeeds leaves the reviewers
\* (R \ {old}) \cup {new}, R being the reviewers before the call and new an
\* active user of the outgoing reviewer's current team, other than old, not
\* the author and not in R; the number of reviewers is unchanged, and the
\* replacement returned is a reviewer of the pull request returned.
ReassignReplacesOne ==
    \A prID \in PRIds, old \in Users :
        \A result \in ReassignReviewer(DB, prID, old) :
            result.err = NoError =>
                LET R == Range(GetReviewers(DB, prID))
                    new == result.replaced_by[1]
                IN /\ Range(GetReviewers(result.db, prID)) = (R \ {old}) \cup {new}
                   /\ new \in DOMAIN users
                   /\ users[new].is_active
                   /\ users[new].team_name = users[old].team_name
                   /\ new # old
                   /\ new # pull_requests[prID].author_id
                   /\ new \notin R
                   /\ Len(GetReviewers(result.db, prID)) = Len(GetReviewers(DB, prID))
                   /\ result.pr[1].assigned_reviewers = GetReviewers(result.db, prID)
                   /\ new \in Range(result.pr[1].assigned_reviewers)

\* C4 happens: one of two reviewers is replaced, the outgoing one being in
\* another team than the author.
ReassignReplacesOneWitness ==
    \E prID \in DOMAIN pull_requests, old \in Users :
        /\ Len(GetReviewers(DB, prID)) = 2
        /\ IsReviewerAssigned(DB, prID, old)
        /\ users[old].team_name # users[pull_requests[prID].author_id].team_name
        /\ \E result \in ReassignReviewer(DB, prID, old) :
              /\ result.err = NoError
              /\ Len(GetReviewers(result.db, prID)) = 2

\* The users that can replace old on the pull request: the active members
\* of old's team but old, the author and the reviewers.
ReplacementPool(prID, old) ==
    {u \in DOMAIN users :
        /\ old \in DOMAIN users
        /\ users[u].team_name = users[old].team_name
        /\ users[u].is_active
        /\ u # old
        /\ u # pull_requests[prID].author_id
        /\ u \notin Range(GetReviewers(DB, prID))}

\* C5: on an OPEN pull request, for an assigned outgoing reviewer with no
\* possible replacement, ReassignReviewer fails with NO_CANDIDATE and the
\* reviewers are what they were: nothing is removed, nothing added.
NoCandidateLeavesReviewers ==
    \A prID \in DOMAIN pull_requests, old \in Users :
        (/\ pull_requests[prID].status = "OPEN"
         /\ IsReviewerAssigned(DB, prID, old)
         /\ ReplacementPool(prID, old) = {}) =>
            /\ ReassignReviewer(DB, prID, old) # {}
            /\ \A result \in ReassignReviewer(DB, prID, old) :
                /\ result.err = ServiceError("NO_CANDIDATE")
                /\ result.db.pr_reviewers = pr_reviewers
                /\ result.db = DB

\* C5 happens: the only other active user of the outgoing reviewer's team
\* is the second reviewer of the pull request.
NoCandidateLeavesReviewersWitness ==
    \E prID \in DOMAIN pull_requests, old \in Users, other \in Users :
        /\ pull_requests[prID].status = "OPEN"
        /\ IsReviewerAssigned(DB, prID, old)
        /\ IsReviewerAssigned(DB, prID, other)
        /\ other # old
        /\ users[other].is_active
        /\ users[other].team_name = users[old].team_name
        /\ users[pull_requests[prID].author_id].is_active
        /\ users[pull_requests[prID].author_id].team_name = users[old].team_name
        /\ ReplacementPool(prID, old) = {}
        /\ \E result \in ReassignReviewer(DB, prID, old) :
              result.err = ServiceError("NO_CANDIDATE")

\* C6: the status of a pull request only moves OPEN -> MERGED.  In every
\* state a pull request is OPEN with no merge timestamp or MERGED with one;
\* in every step a pull request stays, a MERGED one stays MERGED with the
\* merge timestamp it has, and one that becomes MERGED is stamped with the
\* time of that merge.
StatusOnlyMovesToMerged ==
    /\ [](\A prID \in DOMAIN pull_requests :
            \/ /\ pull_requests[prID].status = "OPEN"
               /\ pull_requests[prID].merged_at = None
            \/ /\ pull_requests[prID].status = "MERGED"
               /\ pull_requests[prID].merged_at # None)
    /\ [][\A prID \in DOMAIN pull_requests :
            /\ prID \in DOMAIN pull_requests'
            /\ pull_requests[prID].status = "MERGED" =>
                 /\ pull_requests'[prID].status = "MERGED"
                 /\ pull_requests'[prID].merged_at = pull_requests[prID].merged_at
            /\ (pull_requests[prID].status = "OPEN"
                /\ pull_requests'[prID].status = "MERGED") =>
                 pull_requests'[prID].merged_at = Some(clock)]_vars

\* C6 happens: a pull request is MERGED, stamped before the present time,
\* and a merge, a reassignment and a creation can still be asked for it.
StatusOnlyMovesToMergedWitness ==
    \E prID \in DOMAIN pull_requests :
        /\ pull_requests[prID].status = "MERGED"
        /\ pull_requests[prID].merged_at # None
        /\ pull_requests[prID].merged_at[1] < clock
        /\ pull_requests[prID].created_at < pull_requests[prID].merged_at[1]

\* C7: MergePullRequest on a MERGED pull request succeeds, returns the pull
\* request with status MERGED and the merge timestamp that is stored, and
\* leaves the database as it was.
MergeIdempotent ==
    \A prID \in DOMAIN pull_requests :
        pull_requests[prID].status = "MERGED" =>
            /\ MergePullRequest(DB, prID) # {}
            /\ \A result \in MergePullRequest(DB, prID) :
                /\ result.err = NoError
                /\ result.pr # None
                /\ result.pr[1].status = "MERGED"
                /\ result.pr[1].merged_at = pull_requests[prID].merged_at
                /\ result.pr[1].merged_at # None
                /\ result.pr[1].assigned_reviewers = GetReviewers(DB, prID)
                /\ result.db = DB

\* C7 happens: a MERGED pull request with reviewers is merged again, and the
\* call answers with no error.
MergeIdempotentWitness ==
    \E prID \in DOMAIN pull_requests :
        /\ pull_requests[prID].status = "MERGED"
        /\ Len(GetReviewers(DB, prID)) > 0
        /\ \E result \in MergePullRequest(DB, prID) :
              result.err = NoError /\ result.pr[1].status = "MERGED"

\* C8: CreatePullRequest with an id that exists fails with PR_EXISTS, which
\* the controller answers with 409, and leaves the database as it was,
\* whatever the title and the author of the request.
CreateExistingFails ==
    \A prID \in DOMAIN pull_requests, prName \in PRNames, authorID \in Users :
        /\ CreatePullRequest(DB, prID, prName, authorID) # {}
        /\ \A result \in CreatePullRequest(DB, prID, prName, authorID) :
            /\ result.err = ServiceError("PR_EXISTS")
            /\ result.pr = None
            /\ result.db = DB
            /\ ControllerCreatePullRequest(result).status = 409

\* C8 happens: a pull request exists, and a request with its id, another
\* title and another known author, who has an active teammate, answers
\* PR_EXISTS.
CreateExistingFailsWitness ==
    \E prID \in DOMAIN pull_requests, prName \in PRNames, authorID \in DOMAIN users :
        /\ prName # pull_requests[prID].pull_request_name
        /\ authorID # pull_requests[prID].author_id
        /\ ActiveTeammates(authorID) # {}
        /\ \E result \in CreatePullRequest(DB, prID, prName, authorID) :
              result.err = ServiceError("PR_EXISTS")

\* C9: ReassignReviewer on an OPEN pull request for a user who is not one of
\* its reviewers, known or not, fails with NOT_ASSIGNED and leaves the
\* reviewers as they were.
ReassignUnassignedFails ==
    \A prID \in DOMAIN pull_requests, oldReviewerID \in Users :
        (/\ pull_requests[prID].status = "OPEN"
         /\ oldReviewerID \notin Range(GetReviewers(DB, prID))) =>
            /\ ReassignReviewer(DB, prID, oldReviewerID) # {}
            /\ \A result \in ReassignReviewer(DB, prID, oldReviewerID) :
                /\ result.err = ServiceError("NOT_ASSIGNED")
                /\ result.db.pr_reviewers = pr_reviewers
                /\ GetReviewers(result.db, prID) = GetReviewers(DB, prID)

\* C9 happens: an OPEN pull request with a reviewer is asked to replace an
\* unknown user, and to replace a known active user of the reviewer's team
\* who is not a reviewer; both calls answer NOT_ASSIGNED.
ReassignUnassignedFailsWitness ==
    \E prID \in DOMAIN pull_requests, unknown \in Users, known \in DOMAIN users,
       reviewer \in DOMAIN users :
        /\ pull_requests[prID].status = "OPEN"
        /\ unknown \notin DOMAIN users
        /\ IsReviewerAssigned(DB, prID, reviewer)
        /\ ~IsReviewerAssigned(DB, prID, known)
        /\ known # pull_requests[prID].author_id
        /\ users[known].is_active
        /\ users[known].team_name = users[reviewer].team_name
        /\ \E result \in ReassignReviewer(DB, prID, unknown) :
              result.err = ServiceError("NOT_ASSIGNED")
        /\ \E result \in ReassignReviewer(DB, prID, known) :
              result.err = ServiceError("NOT_ASSIGNED")

\* C10: MergePullRequest on an id that is no pull request fails with a
\* ServiceError of code NOT_FOUND, which the controller answers with 404,
\* and changes nothing.
MergeUnknownIsTypedNotFound ==
    \A prID \in PRIds \ DOMAIN pull_requests :
        /\ MergePullRequest(DB, prID) # {}
        /\ \A result \in MergePullRequest(DB, prID) :
            /\ result.err = ServiceError("NOT_FOUND")
            /\ ControllerMergePullRequest(result).status = 404
            /\ result.db = DB

\* What the code does for C10: the merge of an unknown id fails and changes
\* nothing, with the untyped error of the storage layer, which the
\* controller answers with 500 INTERNAL_ERROR.
MergeUnknownIsUntyped ==
    \A prID \in PRIds \ DOMAIN pull_requests :
        /\ MergePullRequest(DB, prID) # {}
        /\ \A result \in MergePullRequest(DB, prID) :
            /\ result.err = StorageError("pull request not found")
            /\ ControllerMergePullRequest(result) =
                  [status |-> 500, code |-> "INTERNAL_ERROR"]
            /\ result.db = DB

\* The database with the row of userID taken out of table users, whatever
\* refers to it.  The foreign key of pr_reviewers lets no reachable database
\* hold a reviewer without a user row; ReassignReviewer makes its fourth
\* check all the same, and this is the database that check is for.
WithoutUser(db, userID) ==
    [db EXCEPT !.users = [u \in DOMAIN @ \ {userID} |-> @[u]]]

\* C11: ReassignReviewer reports the first precondition that fails, in the
\* order: the pull request exists (NOT_FOUND), it is not MERGED (PR_MERGED),
\* the outgoing user is assigned (NOT_ASSIGNED), the outgoing user is known
\* (NOT_FOUND); NO_CANDIDATE is reported only when all four hold.  Each
\* failure leaves the database as it was.
ReassignChecksInOrder ==
    \A prID \in PRIds, old \in Users :
        LET exists == prID \in DOMAIN pull_requests
            merged == exists /\ pull_requests[prID].status = "MERGED"
            assigned == pr_reviewers[<<prID, old>>] > 0
            known == old \in DOMAIN users
        IN
        /\ ReassignReviewer(DB, prID, old) # {}
        /\ \A result \in ReassignReviewer(DB, prID, old) :
            /\ ~exists => result.err = ServiceError("NOT_FOUND")
            /\ (exists /\ merged) => result.err = ServiceError("PR_MERGED")
            /\ (exists /\ ~merged /\ ~assigned) =>
                  result.err = ServiceError("NOT_ASSIGNED")
            /\ (exists /\ ~merged /\ assigned /\ ~known) =>
                  result.err = ServiceError("NOT_FOUND")
            /\ result.err = ServiceError("NO_CANDIDATE") =>
                  (exists /\ ~merged /\ assigned /\ known)
            /\ (exists /\ ~merged /\ assigned /\ known) =>
                  result.err \in {NoError, ServiceError("NO_CANDIDATE")}
            /\ result.err # NoError => result.db = DB
        /\ (exists /\ ~merged /\ assigned) =>
              \A result \in ReassignReviewer(WithoutUser(DB, old), prID, old) :
                  /\ result.err = ServiceError("NOT_FOUND")
                  /\ result.db = WithoutUser(DB, old)

\* C11 happens: a pull request is MERGED and the reassignment is asked for a
\* user who is neither assigned nor known, so that the second, third and
\* fourth check all fail: the answer is PR_MERGED.
ReassignChecksInOrderWitness ==
    \E prID \in DOMAIN pull_requests, old \in Users \ DOMAIN users :
        /\ pull_requests[prID].status = "MERGED"
        /\ ~IsReviewerAssigned(DB, prID, old)
        /\ Len(GetReviewers(DB, prID)) > 0
        /\ \E result \in ReassignReviewer(DB, prID, old) :
              result.err = ServiceError("PR_MERGED")

\* C11 also happens on an OPEN pull request: for a user neither assigned nor
\* known the third check answers before the fourth, NOT_ASSIGNED; and with
\* the outgoing reviewer's row taken away the fourth answers NOT_FOUND though
\* no replacement is at hand.
ReassignChecksInOrderOpenWitness ==
    \E prID \in DOMAIN pull_requests, old \in Users \ DOMAIN users,
       reviewer \in DOMAIN users :
        /\ pull_requests[prID].status = "OPEN"
        /\ IsReviewerAssigned(DB, prID, reviewer)
        /\ ReplacementPool(prID, reviewer) = {}
        /\ \E result \in ReassignReviewer(DB, prID, old) :
              result.err = ServiceError("NOT_ASSIGNED")
        /\ \E result \in ReassignReviewer(WithoutUser(DB, reviewer), prID, reviewer) :
              result.err = ServiceError("NOT_FOUND")

\* C14 as stated: CreatePullRequest with an author id that is no known user
\* fails with NOT_FOUND, and afterwards no pull request with the id of the
\* request exists and it has no reviewer row.  The id of the request is any
\* id, in use or not.
CreateUnknownAuthorNotFound ==
    \A prID \in PRIds, prName \in PRNames, authorID \in Users \ DOMAIN users :
        /\ CreatePullRequest(DB, prID, prName, authorID) # {}
        /\ \A result \in CreatePullRequest(DB, prID, prName, authorID) :
            /\ result.err = ServiceError("NOT_FOUND")
            /\ prID \notin DOMAIN result.db.pull_requests
            /\ GetReviewers(result.db, prID) = <<>>

\* C14: CreatePullRequest with an id that is not in use and an author id
\* that is no known user fails with NOT_FOUND, which the controller answers
\* with 404, and creates nothing: the database is as it was, with no pull
\* request of that id and no reviewer row for it.  With an id that is in use
\* the answer is PR_EXISTS, whoever the author: that check comes first.
CreateNewIdUnknownAuthorNotFound ==
    \A prID \in PRIds, prName \in PRNames, authorID \in Users \ DOMAIN users :
        /\ CreatePullRequest(DB, prID, prName, authorID) # {}
        /\ \A result \in CreatePullRequest(DB, prID, prName, authorID) :
            IF PRExists(DB, prID)
            THEN /\ result.err = ServiceError("PR_EXISTS")
                 /\ result.db = DB
            ELSE /\ result.err = ServiceError("NOT_FOUND")
                 /\ ControllerCreatePullRequest(result).status = 404
                 /\ result.pr = None
                 /\ result.db = DB
                 /\ prID \notin DOMAIN result.db.pull_requests
                 /\ GetReviewers(result.db, prID) = <<>>
                 /\ \A u \in Users : result.db.pr_reviewers[<<prID, u>>] = 0

\* C14 happens: a team has two active members, so that reviewers are at
\* hand, the id of the request is not in use, the author is no known user,
\* and the call answers NOT_FOUND.
CreateNewIdUnknownAuthorNotFoundWitness ==
    \E prID \in PRIds, authorID \in Users \ DOMAIN users, u, v \in DOMAIN users :
        /\ ~PRExists(DB, prID)
        /\ u # v
        /\ users[u].is_active /\ users[v].is_active
        /\ users[u].team_name = users[v].team_name
        /\ \E result \in CreatePullRequest(DB, prID, "title-a", authorID) :
              result.err = ServiceError("NOT_FOUND") /\ result.db = DB

\* C19: reviewer rows change only through CreatePullRequest and
\* ReassignReviewer.  MergePullRequest, SetUserActive and CreateTeam, for
\* every request and whether they succeed or fail, leave table pr_reviewers
\* as it was; SetUserActive leaves teams and pull requests as they were and
\* every user row too, but for the is_active of the user it names; CreateTeam
\* leaves the pull requests as they were.
OnlyCreateAndReassignWriteReviewers ==
    /\ \A prID \in PRIds :
        \A result \in MergePullRequest(DB, prID) :
            /\ result.db.pr_reviewers = pr_reviewers
            /\ result.db.users = users
            /\ result.db.teams = teams
    /\ \A userID \in Users, isActive \in BOOLEAN :
        \A result \in SetUserActive(DB, userID, isActive) :
            /\ result.db.pr_reviewers = pr_reviewers
            /\ result.db.pull_requests = pull_requests
            /\ result.db.teams = teams
            /\ DOMAIN result.db.users = DOMAIN users
            /\ \A u \in DOMAIN users :
                /\ result.db.users[u].team_name = users[u].team_name
                /\ u # userID => result.db.users[u] = users[u]
            /\ result.err = NoError => result.db.users[userID].is_active = isActive
    /\ \A teamName \in Teams, members \in MemberLists :
        \A result \in CreateTeam(DB, [team_name |-> teamName, members |-> members]) :
            /\ result.db.pr_reviewers = pr_reviewers
            /\ result.db.pull_requests = pull_requests
            /\ \A prID \in DOMAIN pull_requests :
                  GetReviewers(result.db, prID) = GetReviewers(DB, prID)

\* C19 happens: a pull request has a reviewer in the team of its author; a
\* CreateTeam of a team that does not exist yet lists that reviewer, inactive,
\* and succeeds: the reviewer is moved to the new team and deactivated, and
\* the reviewers of the pull request are what they were.
OnlyCreateAndReassignWriteReviewersWitness ==
    \E prID \in DOMAIN pull_requests, reviewer \in DOMAIN users, teamName \in Teams :
        /\ IsReviewerAssigned(DB, prID, reviewer)
        /\ users[reviewer].team_name = users[pull_requests[prID].author_id].team_name
        /\ ~TeamExists(DB, teamName)
        /\ \E result \in CreateTeam(DB, [team_name |-> teamName,
                                        members |-> <<[user_id |-> reviewer,
                                                       is_active |-> FALSE]>>]) :
              /\ result.err = NoError
              /\ result.db.users[reviewer].team_name = teamName
              /\ result.db.users[reviewer].team_name # users[reviewer].team_name
              /\ GetReviewers(result.db, prID) = GetReviewers(DB, prID)

----------------------------------------------------------------------------
(* Properties of the calls followed store call by store call.  Those about *)
(* a failing store are stated of SpecFaults, those about requests running  *)
(* together of SpecConcurrent.                                             *)

\* Whether the request is about to make one of the writes of an operation
\* that makes several: the INSERT of the pull request and the AddReviewer
\* of a creation, the RemoveReviewer and the AddReviewer of a reassignment.
AtWrite(req) ==
    \/ req.op = "CreatePullRequest" /\ req.pc \in {"CreatePullRequest", "AddReviewer"}
    \/ req.op = "ReassignReviewer" /\ req.pc \in {"RemoveReviewer", "AddReviewer"}

\* C12: when a write of a multi-write operation fails in the store (an
\* AddReviewer or the INSERT of CreatePullRequest, the RemoveReviewer or
\* the AddReviewer of ReassignReviewer), the operation returns then and
\* there with the error of the store and no answer, never a success; what
\* it wrote before stays as it is.
FailedWriteIsReturned ==
    \A s \in DOMAIN requests :
        (InFlight(s) /\ AtWrite(requests[s])) =>
            /\ Step(DB, requests[s], TRUE) # {}
            /\ \A outcome \in Step(DB, requests[s], TRUE) :
                /\ outcome.req.pc = "return"
                /\ outcome.req.err # NoError
                /\ ~outcome.req.err.typed
                /\ outcome.req.answer = None
                /\ outcome.db = DB

\* C12 happens: a creation that chose two reviewers has returned the error
\* of a failed AddReviewer; the pull request and the first reviewer, written
\* before, are in the store.
FailedWriteIsReturnedWitness ==
    \E s \in DOMAIN requests :
        /\ requests[s].op = "CreatePullRequest"
        /\ requests[s].pc = "return"
        /\ requests[s].err = StorageError("failed to add reviewer")
        /\ requests[s].answer = None
        /\ Len(requests[s].reviewers) = 2
        /\ requests[s].prID \in DOMAIN pull_requests
        /\ GetReviewers(DB, requests[s].prID) = <<requests[s].reviewers[1]>>

\* C12 also happens in a reassignment: the AddReviewer failed after the
\* RemoveReviewer, the error is returned, and the pull request is left with
\* the outgoing reviewer removed and no replacement.
FailedWriteIsReturnedReassignWitness ==
    \E s \in DOMAIN requests :
        /\ requests[s].op = "ReassignReviewer"
        /\ requests[s].pc = "return"
        /\ requests[s].err = StorageError("failed to add reviewer")
        /\ Len(requests[s].pr[1].assigned_reviewers) = 2
        /\ Len(GetReviewers(DB, requests[s].prID)) = 1
        /\ ~IsReviewerAssigned(DB, requests[s].prID, requests[s].userID)
        /\ ~IsReviewerAssigned(DB, requests[s].prID, requests[s].newReviewerID)

\* C13: a Storage call that fails during GetTeam, SetUserActive,
\* GetPRsByReviewer, CreatePullRequest or ReassignReviewer makes the
\* operation return the failure of the store: an error that is no
\* ServiceError, NOT_FOUND or other.
StoreFailureIsSurfaced ==
    \A s \in DOMAIN requests :
        (/\ InFlight(s)
         /\ requests[s].op \in {"GetTeam", "SetUserActive", "GetPRsByReviewer",
                                "CreatePullRequest", "ReassignReviewer"}) =>
            \A outcome \in Step(DB, requests[s], TRUE) :
                /\ outcome.req.pc = "return"
                /\ outcome.req.err # NoError
                /\ ~outcome.req.err.typed

\* The Storage calls whose every error the service answers with NOT_FOUND:
\* GetTeam, GetUser, and the GetPullRequest a reassignment begins with.
AnsweredNotFound(req) ==
    \/ req.pc \in {"GetTeam", "GetUser"}
    \/ req.op = "ReassignReviewer" /\ req.pc = "GetPullRequest"

\* What the code does for C13: a Storage call that fails always ends the
\* operation with an error and no answer, and writes nothing; the error is
\* the ServiceError NOT_FOUND when the call is GetTeam, GetUser or the first
\* GetPullRequest of a reassignment, and the untyped error of the store for
\* every other call.
StoreFailureIsNotFoundForLookups ==
    \A s \in DOMAIN requests :
        InFlight(s) =>
            /\ Step(DB, requests[s], TRUE) # {}
            /\ \A outcome \in Step(DB, requests[s], TRUE) :
                /\ outcome.req.pc = "return"
                /\ outcome.req.answer = None
                /\ outcome.db = DB
                /\ IF AnsweredNotFound(requests[s])
                   THEN outcome.req.err = ServiceError("NOT_FOUND")
                   ELSE outcome.req.err # NoError /\ ~outcome.req.err.typed

\* Whether the request of slot s is a ReassignReviewer of the pull request
\* that has returned with success.
Reassigned(s, prID) ==
    /\ requests[s].op = "ReassignReviewer"
    /\ requests[s].prID = prID
    /\ requests[s].pc = "return"
    /\ requests[s].err = NoError

\* At most 2 reviewers on every pull request, in every state.
AtMostTwoReviewers ==
    \A prID \in DOMAIN pull_requests : Len(GetReviewers(DB, prID)) <= 2

\* When two ReassignReviewer calls on a pull request that both found n
\* reviewers on it have both returned with success, it has n reviewers.
ReassignsKeepCount ==
    \A prID \in DOMAIN pull_requests : \A s, t \in DOMAIN requests :
        (/\ s # t
         /\ Reassigned(s, prID)
         /\ Reassigned(t, prID)
         /\ Len(requests[s].pr[1].assigned_reviewers)
              = Len(requests[t].pr[1].assigned_reviewers)) =>
            Len(GetReviewers(DB, prID)) = Len(requests[s].pr[1].assigned_reviewers)

\* C15: with the Storage calls of the requests interleaved, a pull request
\* has at most 2 reviewers in every state, and two ReassignReviewer calls
\* on a pull request that ran together, for the same reviewer or for two,
\* leave it with as many reviewers as they found on it.
AtMostTwoAndCountKept ==
    AtMostTwoReviewers /\ ReassignsKeepCount

\* C16: the reviewers of a pull request that is MERGED do not change, in
\* any step of any request.
MergedReviewersNeverChange ==
    [][\A prID \in DOMAIN pull_requests :
          pull_requests[prID].status = "MERGED" =>
              \A u \in Users : pr_reviewers'[<<prID, u>>] = pr_reviewers[<<prID, u>>]]_vars

\* The case C16 names: no step of a ReassignReviewer changes the reviewers
\* of a pull request that is MERGED when the step is taken.
ReassignLeavesMergedAlone ==
    [][\A s \in DOMAIN requests :
          (/\ requests[s].op = "ReassignReviewer"
           /\ requests'[s] # requests[s]
           /\ requests[s].prID \in DOMAIN pull_requests
           /\ pull_requests[requests[s].prID].status = "MERGED") =>
              pr_reviewers' = pr_reviewers]_vars

\* Whether the request of slot c has inserted the pull request and still
\* has reviewers it chose to write.
StillAssigning(c, prID) ==
    /\ requests[c].op = "CreatePullRequest"
    /\ requests[c].prID = prID
    /\ requests[c].pc = "AddReviewer"
    /\ requests[c].added < Len(requests[c].reviewers)

\* Whether the request of slot s has found the pull request in the store:
\* a reassignment that read it, a merge that updated or found it, a
\* creation answered PR_EXISTS.
HasSeen(s, prID) ==
    /\ requests[s].prID = prID
    /\ \/ /\ requests[s].op = "ReassignReviewer"
          /\ requests[s].pr # None \/ requests[s].err = ServiceError("PR_MERGED")
       \/ /\ requests[s].op = "MergePullRequest"
          /\ requests[s].pc = "GetPullRequest" \/ requests[s].answer # None
       \/ /\ requests[s].op = "CreatePullRequest"
          /\ requests[s].err = ServiceError("PR_EXISTS")

\* Whether the request of slot s was answered a list of pull requests with
\* this one in it.
HasListed(s, prID) ==
    /\ requests[s].op = "GetPRsByReviewer"
    /\ requests[s].answer # None
    /\ \E i \in 1..Len(requests[s].answer[1]) :
          requests[s].answer[1][i].pull_request_id = prID

\* C17: while the request that created a pull request still has reviewers
\* to write, no other request has found the pull request in the store or
\* been given it in a list.
CreationLooksAtomic ==
    \A prID \in PRIds : \A c, s \in DOMAIN requests :
        (c # s /\ StillAssigning(c, prID)) =>
            ~(HasSeen(s, prID) \/ HasListed(s, prID))

\* Whether the request of slot s is a CreatePullRequest of the id that has
\* returned.
CreateReturned(s, prID) ==
    /\ requests[s].op = "CreatePullRequest"
    /\ requests[s].prID = prID
    /\ requests[s].pc = "return"

\* C18: of two CreatePullRequest calls with the same id that have returned,
\* one of them having created the pull request, the other has failed with
\* PR_EXISTS and has chosen and written no reviewer: the reviewers written
\* at the creation are those of the successful call.
OneCreatesOtherExists ==
    \A prID \in PRIds : \A w, l \in DOMAIN requests :
        (/\ w # l
         /\ CreateReturned(w, prID)
         /\ CreateReturned(l, prID)
         /\ requests[w].err = NoError) =>
            /\ requests[l].err = ServiceError("PR_EXISTS")
            /\ requests[l].reviewers = <<>> /\ requests[l].added = 0

\* What the code does for C18: of two CreatePullRequest calls with the same
\* id that have returned, one of them having created the pull request, the
\* other has failed, with PR_EXISTS or with the untyped error of the INSERT
\* that the primary key refused, and has chosen and written no reviewer.
OneCreatesOtherFails ==
    \A prID \in PRIds : \A w, l \in DOMAIN requests :
        (/\ w # l
         /\ CreateReturned(w, prID)
         /\ CreateReturned(l, prID)
         /\ requests[w].err = NoError) =>
            /\ requests[l].err \in {ServiceError("PR_EXISTS"),
                                    StorageError("failed to create pull request")}
            /\ requests[l].reviewers = <<>> /\ requests[l].added = 0

\* C20: a reviewer row is written only for a user who is active when it is
\* written, whatever the requests that run beside the one that writes it.
OnlyActiveUsersAreAdded ==
    [][\A prID \in PRIds, u \in Users :
          pr_reviewers'[<<prID, u>>] > pr_reviewers[<<prID, u>>] =>
              (u \in DOMAIN users /\ users[u].is_active)]_vars

----------------------------------------------------------------------------
(* Properties of the team request and of the reviewer rows, stated of Spec. *)

\* C21: CreateTeam with the name of a team that exists, whatever members
\* the request lists, has one result: the error TEAM_EXISTS, answered 400
\* by the handler, and the store as it was, with no team added and no user
\* created, updated or moved to the team.
CreateExistingTeamFails ==
    \A teamName \in Teams :
        TeamExists(DB, teamName) =>
            \A members \in MemberLists :
                LET results == CreateTeam(DB, [team_name |-> teamName, members |-> members])
                IN /\ results = {[err |-> ServiceError("TEAM_EXISTS"), db |-> DB]}
                   /\ \A result \in results :
                        ControllerCreateTeam(result) = [status |-> 400, code |-> "TEAM_EXISTS"]

\* C21 happens: a team exists, and a request for it that lists a user of
\* another team, a user set the other way and a user not yet stored is
\* answered TEAM_EXISTS and leaves the three as they are.
CreateExistingTeamFailsWitness ==
    \E teamName \in teams : \E members \in MemberLists :
        /\ \E i \in 1..Len(members) :
              /\ members[i].user_id \in DOMAIN users
              /\ users[members[i].user_id].team_name # teamName
        /\ \E i \in 1..Len(members) :
              /\ members[i].user_id \in DOMAIN users
              /\ users[members[i].user_id].team_name = teamName
              /\ users[members[i].user_id].is_active # members[i].is_active
        /\ \E i \in 1..Len(members) : members[i].user_id \notin DOMAIN users
        /\ CreateTeam(DB, [team_name |-> teamName, members |-> members])
              = {[err |-> ServiceError("TEAM_EXISTS"), db |-> DB]}

\* The pull requests of the store that have the user among their reviewers.
ReviewedBy(db, userID) ==
    {p \in DOMAIN db.pull_requests :
        \E i \in 1..Len(GetReviewers(db, p)) : GetReviewers(db, p)[i] = userID}

\* The ids of a list of models.PullRequestShort.
Listed(prs) == {prs[i].pull_request_id : i \in 1..Len(prs)}

\* Whether GetPRsByReviewer answers the user with the pull requests the
\* user reviews in the store, each once and with the name, author and
\* status of its row.
ListsReviewed(db, userID) ==
    \A result \in ServiceGetPRsByReviewer(db, userID) :
        /\ result.err = NoError
        /\ Listed(result.prs[1]) = ReviewedBy(db, userID)
        /\ Len(result.prs[1]) = Cardinality(ReviewedBy(db, userID))
        /\ \A i \in 1..Len(result.prs[1]) :
              LET short == result.prs[1][i]
                  row == db.pull_requests[short.pull_request_id]
              IN /\ short.pull_request_name = row.pull_request_name
                 /\ short.author_id = row.author_id
                 /\ short.status = row.status

\* C22: GetPRsByReviewer for a user that exists answers exactly the pull
\* requests, OPEN or MERGED, that have the user among their reviewers, and
\* fails with NOT_FOUND for a user that does not exist; in the store a
\* successful ReassignReviewer leaves, the pull request is not listed for
\* the outgoing reviewer and is listed for the one answered.
GetPRsByReviewerListsCurrent ==
    /\ \A userID \in Users :
          IF userID \in DOMAIN users
          THEN ListsReviewed(DB, userID)
          ELSE ServiceGetPRsByReviewer(DB, userID)
                 = {[err |-> ServiceError("NOT_FOUND"), prs |-> None]}
    /\ \A prID \in PRIds, oldReviewerID \in Users :
          \A result \in ReassignReviewer(DB, prID, oldReviewerID) :
              result.err = NoError =>
                  /\ \A old \in ServiceGetPRsByReviewer(result.db, oldReviewerID) :
                        old.err = NoError /\ prID \notin Listed(old.prs[1])
                  /\ \A new \in ServiceGetPRsByReviewer(result.db, result.replaced_by[1]) :
                        new.err = NoError /\ prID \in Listed(new.prs[1])

\* C22 happens: a pull request that is MERGED is listed for one of its
\* reviewers and not for a user who reviews nothing, and a user that does
\* not exist is answered NOT_FOUND.
GetPRsByReviewerListsCurrentWitness ==
    /\ \E prID \in DOMAIN pull_requests, userID \in DOMAIN users :
          /\ pull_requests[prID].status = "MERGED"
          /\ \E result \in ServiceGetPRsByReviewer(DB, userID) :
                result.err = NoError /\ prID \in Listed(result.prs[1])
    /\ \E userID \in DOMAIN users :
          \E result \in ServiceGetPRsByReviewer(DB, userID) :
              result.err = NoError /\ result.prs[1] = <<>>
    /\ \E userID \in Users :
          /\ userID \notin DOMAIN users
          /\ ServiceGetPRsByReviewer(DB, userID)
                = {[err |-> ServiceError("NOT_FOUND"), prs |-> None]}

\* C22 happens for a reassignment: a ReassignReviewer can succeed here, and
\* the pull request is listed for the outgoing reviewer before it.
GetPRsByReviewerAfterReassignWitness ==
    \E prID \in PRIds, oldReviewerID \in Users :
        /\ \E result \in ReassignReviewer(DB, prID, oldReviewerID) :
              /\ result.err = NoError
              /\ \A new \in ServiceGetPRsByReviewer(DB, result.replaced_by[1]) :
                    prID \notin Listed(new.prs[1])
        /\ \A old \in ServiceGetPRsByReviewer(DB, oldReviewerID) :
              prID \in Listed(old.prs[1])

\* C23: AddReviewer of a pair that is among the reviewer rows succeeds and
\* leaves the store, and so the reviewers of the pull request, as they
\* are; and an AddReviewer that has succeeded, applied once more, succeeds
\* and leaves the store the first one left.
AddReviewerIdempotent ==
    \A prID \in PRIds, userID \in Users :
        LET once == AddReviewer(DB, prID, userID)
            twice == AddReviewer(once.db, prID, userID)
        IN /\ IsReviewerAssigned(DB, prID, userID) =>
                /\ once = [err |-> NoError, db |-> DB]
                /\ GetReviewers(once.db, prID) = GetReviewers(DB, prID)
           /\ once.err = NoError =>
                /\ twice = once
                /\ GetReviewers(twice.db, prID) = GetReviewers(once.db, prID)
                /\ IsReviewerAssigned(once.db, prID, userID)

\* C23 happens: one user is a reviewer of the pull request and is added
\* again, another is not and is added twice, the first time writing a row.
AddReviewerIdempotentWitness ==
    \E prID \in DOMAIN pull_requests : \E u, v \in DOMAIN users :
        /\ IsReviewerAssigned(DB, prID, u)
        /\ AddReviewer(DB, prID, u) = [err |-> NoError, db |-> DB]
        /\ ~IsReviewerAssigned(DB, prID, v)
        /\ AddReviewer(DB, prID, v).err = NoError
        /\ AddReviewer(DB, prID, v).db # DB
        /\ AddReviewer(AddReviewer(DB, prID, v).db, prID, v) = AddReviewer(DB, prID, v)

====
